---- MODULE Spec2Model ----
(***************************************************************************)
(* State-machine model of PicoParser (src/src/picoparser/PicoParser.py):   *)
(* the mapped-file session (__enter__/__exit__), the frame indexer         *)
(* (iterFrameIdx), the thread-pool dispatcher (getFrameNdarrayByIndices,   *)
(* i.e. ThreadPoolExecutor.map), the per-frame decode task                 *)
(* (__getFrameNdarray) and the record assembler (__libpicoFrameToNdarray). *)
(***************************************************************************)
EXTENDS Integers, Sequences, FiniteSets, TLC

\* ------------------------------------------------------------------------
\* Bounds of the model
\* ------------------------------------------------------------------------
MaxFileSize == 10       \* longest file of the indexer specification
MaxFrames == 2          \* most frames in a file of the decode specification
MaxNWorker == 2         \* largest requested worker count
MaxCpu == 2             \* os.cpu_count() of the host, when it is known

\* The byte values files are drawn from (a file byte is 0..255; these give
\* the prefixes 0, 1, 2 and, in a high byte, lengths that overrun the file).
ByteVals == {0, 1, 2}

\* Size of the little-endian length prefix of a frame.
HeaderLen == 4

Gens == {1, 2}          \* two generator objects made by iterFrameIdx()

Min(a, b) == IF a <= b THEN a ELSE b

VARIABLES
  file,        \* bytes of the capture file = bytes of the mapping
  diskSize,    \* os.path.getsize(filePath) as the storage reports it now
  fileExists,  \* whether open(filePath) finds the file
  nWorker,     \* self.__nWorker, already limited by __limitWorker
  reqWorker,   \* the nWorker argument of the constructor
  maxWorker,   \* PicoParser.__maxWorker = os.cpu_count() (0: None)
  hostCpus,    \* processing units of the host
  want,        \* fields whose enable flag is true in the getNdarray call
  interp,      \* the interp argument of the batch
  entered,     \* self.__entered
  fileRes,     \* self.__file: "none", "open", "closed"
  mmapRes,     \* self.__fileMmap: "none", "open", "closed"
  viewRes,     \* self.__fileMmapView: "none", "open", "closed"
  poolRes,     \* self.__executor: "none", "running", "shutdown"
  pcMain,      \* calling thread: "new", "body", "joining", "ended"
  gen,         \* the frames of the iterFrameIdx generators
  batch,       \* the slices handed to executor.map, in order
  task,        \* one future/work item per slice of the batch
  heap,        \* the DecodedFrames the foreign decoder has allocated
  iterPc,      \* result iterator of executor.map
  head,        \* number of futures the result iterator has popped
  out,         \* the records delivered to the caller, in order
  excTask,     \* task whose exception the caller is holding (0: none)
  closedWith,  \* tasks that were unfinished when shutdown() was called
  result       \* outcome of the getNdarray call

sessVars == <<entered, fileRes, mmapRes, viewRes, poolRes, pcMain>>
inVars == <<file, diskSize, fileExists, nWorker, interp, reqWorker, maxWorker,
            hostCpus, want>>
decVars == <<batch, task, heap, iterPc, head, out, excTask, closedWith, result>>
vars == <<inVars, sessVars, gen, decVars>>

\* ------------------------------------------------------------------------
\* __init__ / __limitWorker
\* ------------------------------------------------------------------------
\* Variant: the requested size taken as it is.
limitWorkerNoClamp(n, cpu) == n
\* if self.__maxWorker: return min(nWorker, self.__maxWorker); return nWorker
\* cpu = 0 stands for os.cpu_count() returning None (falsy, like 0).
limitWorker(n, cpu) == IF cpu # 0 THEN Min(n, cpu) ELSE n

\* ------------------------------------------------------------------------
\* iterFrameIdx
\* ------------------------------------------------------------------------
\* struct.unpack("<I", b)[0]: little-endian unsigned 32-bit.
Unpack(b) == b[1] + 256 * b[2] + 65536 * b[3] + 16777216 * b[4]

\* Little-endian encoding of a 32-bit length, as a capture writer lays it out.
LE32(n) == <<n % 256, (n \div 256) % 256, (n \div 65536) % 256,
             (n \div 16777216) % 256>>

\* mmView[lo : hi]: a Python slice, clamped to the length of the view.
SliceView(view, lo, hi) == SubSeq(view, lo + 1, Min(hi, Len(view)))

\* Variant: the frame length without the 4 bytes of the prefix.
FrameLengthNoHeader(payloadLen) == payloadLen
\* frameLength := 4 + payloadLen
FrameLength(payloadLen) == HeaderLen + payloadLen

\* Variant: the bound test on the payload alone.
OverrunsPayloadOnly(idx, frameLength, fileSize) ==
  idx + frameLength - HeaderLen > fileSize
\* idx + frameLength > fileSize
Overruns(idx, frameLength, fileSize) == idx + frameLength > fileSize

\* Variant: the loop runs while any byte is left.
LoopCondAnyByte(idx, fileSize) == idx < fileSize
\* while idx + 4 <= fileSize
LoopCond(idx, fileSize) == idx + HeaderLen <= fileSize

\* Variant: only a negative length ends the scan.
StopsOnLenNegative(payloadLen) == payloadLen < 0
\* payloadLen <= 0
StopsOnLen(payloadLen) == payloadLen <= 0

\* Variant: the offset advanced past the length prefix alone.
AdvanceHeaderOnly(idx, frameLength) == idx + HeaderLen
\* idx += frameLength
Advance(idx, frameLength) == idx + frameLength

\* fileSize = os.path.getsize(self.__filePath)
ScanFileSize == diskSize

\* One evaluation of the loop head and body at offset idx, up to the yield,
\* the break, the end of the loop or the struct.error of a short read.
ScanAt(idx, fileSize, view) ==
  IF ~LoopCond(idx, fileSize)
  THEN [k |-> "stop", len |-> 0]
  ELSE LET hdr == SliceView(view, idx, idx + HeaderLen) IN
       IF Len(hdr) # HeaderLen
       THEN [k |-> "error", len |-> 0]
       ELSE LET payloadLen == Unpack(hdr)
                frameLength == FrameLength(payloadLen)
            IN IF StopsOnLen(payloadLen) \/ Overruns(idx, frameLength, fileSize)
               THEN [k |-> "stop", len |-> 0]
               ELSE [k |-> "yield", len |-> frameLength]

\* Variant: the scan offset kept on the session and shared by the generators.
GenStartShared(g) == IF g = 1 THEN 0 ELSE gen[1].idx
\* idx = 0 : every generator object has its own local idx
GenStart(g) == 0

NewGen == [pc |-> "new", fileSize |-> 0, idx |-> 0, len |-> 0, out |-> <<>>]

\* next(g) on a generator object of iterFrameIdx.
GenNext(g) ==
  /\ pcMain = "body"
  /\ gen[g].pc \in {"new", "yielded"}
  /\ LET fs == IF gen[g].pc = "new" THEN ScanFileSize ELSE gen[g].fileSize
         i == IF gen[g].pc = "new" THEN GenStart(g)
                                   ELSE Advance(gen[g].idx, gen[g].len)
         r == ScanAt(i, fs, file)
     IN gen' = [gen EXCEPT ![g] =
                  [pc |-> IF r.k = "yield" THEN "yielded"
                          ELSE IF r.k = "stop" THEN "done" ELSE "error",
                   fileSize |-> fs,
                   idx |-> i,
                   len |-> r.len,
                   out |-> IF r.k = "yield" THEN Append(gen[g].out, <<i, r.len>>)
                           ELSE gen[g].out]]
  /\ UNCHANGED <<inVars, sessVars, decVars>>

\* The whole sequence a fresh generator yields when consumed to the end.
RECURSIVE ScanFrom(_, _, _)
ScanFrom(idx, fileSize, view) ==
  LET r == ScanAt(idx, fileSize, view) IN
  IF r.k = "yield"
  THEN <<<<idx, r.len>>>> \o ScanFrom(Advance(idx, r.len), fileSize, view)
  ELSE <<>>

\* ------------------------------------------------------------------------
\* __enter__
\* ------------------------------------------------------------------------
\* open() raises when the file is missing, mmap.mmap(fileno, 0) raises
\* ValueError on an empty file, ThreadPoolExecutor(n) raises ValueError when
\* n <= 0.  An exception of __enter__ ends the with statement without a
\* call of __exit__.
Enter ==
  /\ pcMain = "new"
  /\ entered' = TRUE
  /\ fileRes' = IF fileExists THEN "open" ELSE "none"
  /\ mmapRes' = IF fileExists /\ Len(file) > 0 THEN "open" ELSE "none"
  /\ viewRes' = mmapRes'
  /\ poolRes' = IF mmapRes' = "open" /\ nWorker > 0 THEN "running" ELSE "none"
  /\ pcMain' = IF poolRes' = "running" THEN "body" ELSE "ended"
  /\ UNCHANGED <<inVars, gen, decVars>>

\* ------------------------------------------------------------------------
\* The foreign decoder (libpico: getLibpicoFrameFromBuffer, freeLibpicoFrame)
\* ------------------------------------------------------------------------
\* A frame of the decode specification carries a 2-byte payload <<kind, tag>>:
\* kind 0 decodes to a full record, kind 1 is malformed (the decoder returns
\* a NULL pointer), kind 2 decodes to a record whose conversion raises (its
\* tensor pointers are NULL); tag is the capture timestamp.  Kind 3 decodes
\* to a full record with one real tone only, and kind 4 to a full record
\* whose release freeLibpicoFrame reports as failed.
KindOk == 0
KindMalformed == 1
KindNoCsi == 2
KindSparse == 3
KindFreeFails == 4
Kinds == {KindOk, KindMalformed, KindNoCsi}

\* subcarrierIndicesPtr of a decoded frame: four tones, three of them real.
SubcarrierLabels == <<-2, 0, 2, 3>>
\* subcarrierIndicesPtr of a sparse frame: four tones, one of them real.
SparseLabels == <<-1, 0, 1, 3>>

\* The LibpicoRaw the decoder builds from the bytes of one frame.
LibpicoRawOf(buf) ==
  LET tag == buf[HeaderLen + 2] IN
  [systemTime |-> tag,
   csiOk |-> buf[HeaderLen + 1] # KindNoCsi,
   subcarrierIdx |-> IF buf[HeaderLen + 1] = KindSparse
                     THEN SparseLabels ELSE SubcarrierLabels,
   csiReal |-> [i \in 1..Len(SubcarrierLabels) |-> 10 * tag + i],
   csiImag |-> [i \in 1..Len(SubcarrierLabels) |-> 0 - i],
   magnitude |-> [i \in 1..Len(SubcarrierLabels) |-> 20 * tag + i],
   phase |-> [i \in 1..Len(SubcarrierLabels) |-> 30 * tag + i]]

\* getLibpicoFrameFromBuffer rejects the frame: the returned pointer is NULL.
DecoderRejects(buf) == buf[HeaderLen + 1] = KindMalformed

\* freeLibpicoFrame returns false for the frame decoded from buf.
ReleaseFails(buf) == buf[HeaderLen + 1] = KindFreeFails

\* ------------------------------------------------------------------------
\* __libpicoFrameToNdarray / __removeInterp
\* ------------------------------------------------------------------------
\* An ndarray: its rows along the tone axis and the foreign frame whose
\* memory it views (base = 0: the array owns its memory).
\* np.ctypeslib.as_array(ptr, shape): a view of the foreign memory of frame p.
AsArray(p, rows) == [base |-> p, rows |-> rows]

\* realNp + 1j * imgNp: arithmetic allocates a new array.
ComplexOf(re, im) ==
  [base |-> 0, rows |-> [i \in 1..Len(re.rows) |-> <<re.rows[i], im.rows[i]>>]]

\* Variant: the array handed on as it is, still a view.
CopyAliased(a) == a
\* ndarray.copy()
Copy(a) == [base |-> 0, rows |-> a.rows]

\* __interpSubcarrierIdx
InterpSubcarrierIdx == {-1, 0, 1}

\* Variant: every row kept.
removeInterpKeepAll(a, subcarrierIdx) == [base |-> 0, rows |-> a.rows]
\* csi[np.nonzero(~np.isin(subcarrierIdx, interpIdx))[0]]: indexing with an
\* integer array copies the selected rows into a new array.
removeInterp(a, subcarrierIdx) ==
  LET keep[i \in 0..Len(a.rows)] ==
        IF i = 0 THEN <<>>
        ELSE IF subcarrierIdx[i] \notin InterpSubcarrierIdx
             THEN Append(keep[i - 1], a.rows[i])
             ELSE keep[i - 1]
  IN [base |-> 0, rows |-> keep[Len(a.rows)]]

libpicoFrameToNdarray(p, raw, interpolate) ==
  LET realNp == AsArray(p, raw.csiReal)
      imgNp == AsArray(p, raw.csiImag)
      csiNp == ComplexOf(realNp, imgNp)
      magNp == AsArray(p, raw.magnitude)
      phaseNp == AsArray(p, raw.phase)
  IN IF ~interpolate
     THEN [tstamp |-> raw.systemTime,
           csi |-> removeInterp(csiNp, raw.subcarrierIdx),
           mag |-> removeInterp(magNp, raw.subcarrierIdx),
           phase |-> removeInterp(phaseNp, raw.subcarrierIdx)]
     ELSE [tstamp |-> raw.systemTime,
           csi |-> Copy(csiNp),
           mag |-> Copy(magNp),
           phase |-> Copy(phaseNp)]

\* ------------------------------------------------------------------------
\* getFrameNdarrayByIndices: ThreadPoolExecutor.map and its result iterator
\* ------------------------------------------------------------------------
NewTask == [st |-> "pending", ptr |-> 0, buf |-> FALSE, rec |-> <<>>,
            err |-> "none", release |-> "none"]

Finished(t) == task[t].st \in {"done", "failed", "cancelled"}
Executing(t) == task[t].st \in {"running", "buffered", "decoded", "converted"}

Reverse(s) == [i \in 1..Len(s) |-> s[Len(s) + 1 - i]]

\* The frameIndices a caller passes: the index of the file (getNdarray), or
\* the same slices in the caller's own order.
Batches == LET scan == ScanFrom(0, diskSize, file) IN {scan, Reverse(scan)}

\* executor.map submits one work item per slice at once, in input order, and
\* returns the result iterator without starting it.
Map ==
  /\ pcMain = "body"
  /\ iterPc = "none"
  /\ \E b \in Batches :
       /\ batch' = b
       /\ task' = [k \in 1..Len(b) |-> NewTask]
  /\ iterPc' = "fresh"
  /\ UNCHANGED <<inVars, sessVars, gen, heap, head, out, excTask, closedWith, result>>

\* Futures the finally clause of the result iterator cancels: the ones it has
\* not popped.  cancel() only succeeds on a future that has not started.
CancelAfter(h) ==
  [k \in 1..Len(task) |->
     IF k > h /\ task[k].st = "pending"
     THEN [task[k] EXCEPT !.st = "cancelled"] ELSE task[k]]

\* Variant: pop() on the list of futures without the reverse().
NextFutureLifo == Len(batch) - head
\* fs.reverse(); ... fs.pop(): the futures are taken in submission order
NextFuture == head + 1

\* next() on the result iterator: StopIteration when every future is popped,
\* else wait for the next future, then yield its result or raise its
\* exception (and, through the finally clause, cancel the futures left).
ConsumeNext ==
  /\ pcMain = "body"
  /\ iterPc \in {"fresh", "active"}
  /\ \/ /\ head = Len(batch)
        /\ iterPc' = "exhausted"
        /\ UNCHANGED <<task, head, out, excTask>>
     \/ /\ head < Len(batch)
        /\ task[NextFuture].st = "done"
        /\ out' = Append(out, task[NextFuture].rec[1])
        /\ head' = head + 1
        /\ iterPc' = "active"
        /\ UNCHANGED <<task, excTask>>
     \/ /\ head < Len(batch)
        /\ task[NextFuture].st = "failed"
        /\ excTask' = NextFuture
        /\ head' = head + 1
        /\ task' = CancelAfter(head + 1)
        /\ iterPc' = "raised"
        /\ UNCHANGED out
  /\ UNCHANGED <<inVars, sessVars, gen, batch, heap, closedWith, result>>

\* The caller handles the exception of the batch and lets go of it.
CatchExc ==
  /\ pcMain = "body"
  /\ excTask # 0
  /\ excTask' = 0
  /\ UNCHANGED <<inVars, sessVars, gen, batch, task, heap, iterPc, head, out,
                 closedWith, result>>

\* The caller lets go of an unfinished result iterator.  A started iterator
\* is closed (GeneratorExit runs its finally clause); one that was never
\* started has not entered its try statement and cancels nothing.
DropIter ==
  /\ pcMain = "body"
  /\ iterPc \in {"fresh", "active"}
  /\ task' = IF iterPc = "active" THEN CancelAfter(head) ELSE task
  /\ iterPc' = "dropped"
  /\ UNCHANGED <<inVars, sessVars, gen, batch, heap, head, out, excTask,
                 closedWith, result>>

\* ------------------------------------------------------------------------
\* __getFrameNdarray: one work item, run by a worker thread of the pool
\* ------------------------------------------------------------------------
\* A worker takes the oldest work item of the queue; the pool has nWorker
\* threads, so at most nWorker items execute at a time.  Items that are queued
\* when shutdown() is called are still run.
TaskStart(t) ==
  /\ poolRes \in {"running", "shutdown"}
  /\ task[t].st = "pending"
  /\ \A u \in 1..(t - 1) : task[u].st # "pending"
  /\ Cardinality({u \in 1..Len(task) : Executing(u)}) < nWorker
  /\ task' = [task EXCEPT ![t].st = "running"]
  /\ UNCHANGED <<inVars, sessVars, gen, batch, heap, iterPc, head, out,
                 excTask, closedWith, result>>

\* buffer = (c_ubyte * length).from_buffer(self.__fileMmapView[idx : idx + length])
\* Slicing a released memoryview raises ValueError.
TaskBuffer(t) ==
  /\ task[t].st = "running"
  /\ task' = IF viewRes = "open"
             THEN [task EXCEPT ![t].st = "buffered", ![t].buf = TRUE]
             ELSE [task EXCEPT ![t].st = "failed", ![t].err = "ValueError"]
  /\ UNCHANGED <<inVars, sessVars, gen, batch, heap, iterPc, head, out,
                 excTask, closedWith, result>>

\* libpicoRawPtr = libpico.getLibpicoFrameFromBuffer(buffer, length, True)
\* The decoder reads the bytes of the slice through the mapping and allocates
\* a new DecodedFrame, or returns NULL (ptr = 0).
TaskDecode(t) ==
  /\ task[t].st = "buffered"
  /\ LET bytes == SliceView(file, batch[t][1], batch[t][1] + batch[t][2]) IN
     IF mmapRes # "open"
     THEN /\ task' = [task EXCEPT ![t].st = "failed", ![t].err = "SIGSEGV"]
          /\ heap' = heap
     ELSE IF DecoderRejects(bytes)
     THEN /\ task' = [task EXCEPT ![t].st = "decoded", ![t].ptr = 0]
          /\ heap' = heap
     ELSE /\ heap' = Append(heap, [owner |-> t, st |-> "live", nFree |-> 0,
                                   freedBy |-> 0, freedAt |-> 0,
                                   relFails |-> ReleaseFails(bytes),
                                   raw |-> LibpicoRawOf(bytes)])
          /\ task' = [task EXCEPT ![t].st = "decoded", ![t].ptr = Len(heap) + 1]
  /\ UNCHANGED <<inVars, sessVars, gen, batch, iterPc, head, out, excTask,
                 closedWith, result>>

\* frameNdarray = self.__libpicoFrameToNdarray(libpicoRawPtr.contents, interpolate)
\* .contents of a NULL pointer raises ValueError; as_array of a NULL tensor
\* pointer raises too.  An exception ends the task: line 181 is not reached.
TaskConvert(t) ==
  /\ task[t].st = "decoded"
  /\ task' =
       IF task[t].ptr = 0 \/ ~heap[task[t].ptr].raw.csiOk
       THEN [task EXCEPT ![t].st = "failed", ![t].err = "ValueError"]
       ELSE [task EXCEPT ![t].st = "converted",
                         ![t].rec = <<libpicoFrameToNdarray(
                                        task[t].ptr, heap[task[t].ptr].raw, interp)>>]
  /\ UNCHANGED <<inVars, sessVars, gen, batch, heap, iterPc, head, out,
                 excTask, closedWith, result>>

\* libpico.freeLibpicoFrame(libpicoRawPtr); return frameNdarray
\* The returned bool is not looked at: when the library reports that it did
\* not release the frame, the task returns its record all the same.  The locals of the call (the buffer
\* among them) die with the return.
TaskFree(t) ==
  /\ task[t].st = "converted"
  /\ IF heap[task[t].ptr].relFails
     THEN /\ heap' = heap
          /\ task' = [task EXCEPT ![t].st = "done", ![t].buf = FALSE,
                                  ![t].release = "failed"]
     ELSE /\ heap' = [heap EXCEPT ![task[t].ptr] =
                       [@ EXCEPT !.st = "freed", !.nFree = @ + 1, !.freedBy = t,
                                 !.freedAt = 1 + Cardinality(
                                    {f \in 1..Len(heap) : heap[f].st = "freed"})]]
          /\ task' = [task EXCEPT ![t].st = "done", ![t].buf = FALSE,
                                  ![t].release = "ok"]
  /\ UNCHANGED <<inVars, sessVars, gen, batch, iterPc, head, out, excTask,
                 closedWith, result>>

\* ------------------------------------------------------------------------
\* getNdarray
\* ------------------------------------------------------------------------
\* The fields of a FrameNdarray, and of the tuple getNdarray returns.
Fields == {"tstamp", "csi", "mag", "phase"}

\* No getNdarray call has been made.
NoResult == [st |-> "none", err |-> "none",
             val |-> [fld \in Fields |-> [present |-> FALSE, rows |-> <<>>]]]

\* The call maps the index of the whole file onto the pool, in file order;
\* the loop of line 130 is then the consumption of the result iterator.
GetNdarray ==
  /\ pcMain = "body"
  /\ iterPc = "none"
  /\ result.st = "none"
  /\ batch' = ScanFrom(0, diskSize, file)
  /\ task' = [k \in 1..Len(batch') |-> NewTask]
  /\ iterPc' = "fresh"
  /\ result' = [result EXCEPT !.st = "running"]
  /\ UNCHANGED <<inVars, sessVars, gen, heap, head, out, excTask, closedWith>>

\* An exception of a task, raised by the result iterator, leaves the loop
\* and the call.
GetNdarrayRaise ==
  /\ result.st = "running"
  /\ iterPc = "raised"
  /\ result' = [result EXCEPT !.st = "raised", !.err = task[head].err]
  /\ UNCHANGED <<inVars, sessVars, gen, batch, task, heap, iterPc, head, out,
                 excTask, closedWith>>

\* Variant: each value put at the front of its list.
PrependTo(list, x) == <<x>> \o list
\* tstampList.append(frame.tstamp), csiList.append(frame.csi), ...
AppendTo(list, x) == Append(list, x)

\* The list of field fld when the loop has gone through the records recs;
\* the list of a field that is not enabled stays empty.
ListOf(fld, recs) ==
  LET l[i \in 0..Len(recs)] ==
        IF i = 0 THEN <<>> ELSE AppendTo(l[i - 1], recs[i][fld])
  IN IF fld \in want THEN l[Len(recs)] ELSE <<>>

\* The arrays of a list of tensors do not all have the same shape.
Ragged(list) ==
  \E i, j \in 1..Len(list) : Len(list[i].rows) # Len(list[j].rows)

\* np.array(list) if the flag is set else None: one entry per list element
\* along a new leading axis, copied out of the per-frame arrays.
NpArray(fld, list) ==
  IF fld \notin want THEN [present |-> FALSE, rows |-> <<>>]
  ELSE [present |-> TRUE,
        rows |-> [k \in 1..Len(list) |->
                    IF fld = "tstamp" THEN list[k] ELSE list[k].rows]]

\* Lines 140-145 once the result iterator is exhausted.  np.array of arrays
\* of different shapes raises ValueError (numpy 1.24 and later) or builds an
\* array of objects (earlier numpy); the package pins no numpy version.
GetNdarrayReturn ==
  /\ result.st = "running"
  /\ iterPc = "exhausted"
  /\ LET lists == [fld \in Fields |-> ListOf(fld, out)]
         ragged == \E fld \in want \ {"tstamp"} : Ragged(lists[fld])
         arrays == [fld \in Fields |-> NpArray(fld, lists[fld])]
     IN \/ result' = [st |-> "returned", err |-> "none", val |-> arrays]
        \/ /\ ragged
           /\ result' = [result EXCEPT !.st = "raised", !.err = "ValueError"]
  /\ UNCHANGED <<inVars, sessVars, gen, batch, task, heap, iterPc, head, out,
                 excTask, closedWith>>

\* ------------------------------------------------------------------------
\* __exit__
\* ------------------------------------------------------------------------
\* The slices of the memory view that are still exported.  A running task
\* holds its buffer as a local; a failed task's buffer lives on in the
\* traceback of its exception for as long as the future (held by the result
\* iterator until it pops it) or the raised exception is referenced.
Pinned ==
  {t \in 1..Len(task) :
     /\ task[t].buf
     /\ \/ Executing(t)
        \/ /\ task[t].st = "failed"
           /\ \/ iterPc \in {"fresh", "active"} /\ t > head
              \/ excTask = t}

\* self.__executor.shutdown(): wait defaults to True.  From here on no new
\* work is accepted and the call blocks until the workers have ended.
ExitShutdown ==
  /\ pcMain = "body"
  /\ result.st # "running"
  /\ poolRes' = "shutdown"
  /\ pcMain' = "joining"
  /\ closedWith' = {t \in 1..Len(task) : ~Finished(t)}
  /\ UNCHANGED <<inVars, entered, fileRes, mmapRes, viewRes, gen, batch, task,
                 heap, iterPc, head, out, excTask, result>>

\* Variant: shutdown(wait=False) returns at once.
JoinNoWait == TRUE
\* shutdown(wait=True) returns when every worker thread has been joined,
\* which is when the queue is drained and no work item is executing.
JoinComplete == \A t \in 1..Len(task) : Finished(t)

\* The rest of __exit__ after shutdown() has returned: view.release(),
\* mmap.close(), file.close().  mmap.close() raises BufferError while
\* exported buffers exist, and file.close() is then never reached.
ExitTeardown ==
  /\ pcMain = "joining"
  /\ JoinComplete
  /\ viewRes' = "closed"
  /\ mmapRes' = IF Pinned = {} THEN "closed" ELSE mmapRes
  /\ fileRes' = IF Pinned = {} THEN "closed" ELSE fileRes
  /\ pcMain' = "ended"
  /\ UNCHANGED <<inVars, entered, poolRes, gen, decVars>>

\* ------------------------------------------------------------------------
\* The indexer specification: every file over ByteVals up to MaxFileSize
\* ------------------------------------------------------------------------
Files == UNION {[1..n -> ByteVals] : n \in 0..MaxFileSize}

\* A host of MaxCpu processing units that reports them, and a direct call of
\* getFrameNdarrayByIndices (no enable flags).
HostReporting ==
  /\ hostCpus = MaxCpu
  /\ maxWorker = hostCpus
  /\ want = {}

InitCommon ==
  /\ diskSize = Len(file)
  /\ entered = FALSE
  /\ fileRes = "none" /\ mmapRes = "none" /\ viewRes = "none" /\ poolRes = "none"
  /\ pcMain = "new"
  /\ gen = [g \in Gens |-> NewGen]
  /\ batch = <<>> /\ task = <<>> /\ heap = <<>>
  /\ iterPc = "none" /\ head = 0 /\ out = <<>>
  /\ excTask = 0 /\ closedWith = {}
  /\ result = NoResult

\* Three 16-byte frames (prefix 12, 12 payload bytes) and 2 stray bytes.
ScenarioFile ==
  LET frame == LE32(12) \o [i \in 1..12 |-> 1] IN
  frame \o frame \o frame \o <<1, 1>>

InitIdx ==
  /\ file \in Files \cup {ScenarioFile}
  /\ fileExists = TRUE
  /\ HostReporting
  /\ reqWorker = 1
  /\ nWorker = limitWorker(reqWorker, maxWorker)
  /\ interp = FALSE
  /\ InitCommon

NextIdx == Enter \/ \E g \in Gens : GenNext(g)

SpecIdx == InitIdx /\ [][NextIdx]_vars

\* ------------------------------------------------------------------------
\* The file on storage changes size after the session mapped it
\* ------------------------------------------------------------------------
MaxMapped == 6

\* Another process truncates or extends the file once the session is open;
\* the mapping (file) keeps the bytes and the length it was created with.
Resize ==
  /\ pcMain = "body"
  /\ diskSize = Len(file)
  /\ \E n \in 0..MaxFileSize : n # Len(file) /\ diskSize' = n
  /\ UNCHANGED <<file, fileExists, nWorker, interp, reqWorker, maxWorker,
                 hostCpus, want, sessVars, gen, decVars>>

InitResize ==
  /\ file \in UNION {[1..n -> ByteVals] : n \in 0..MaxMapped}
  /\ fileExists = TRUE
  /\ HostReporting
  /\ reqWorker = 1
  /\ nWorker = limitWorker(reqWorker, maxWorker)
  /\ interp = FALSE
  /\ InitCommon

NextResize == Enter \/ Resize \/ \E g \in Gens : GenNext(g)

SpecResize == InitResize /\ [][NextResize]_vars
\* ------------------------------------------------------------------------
\* The decode specification: files of up to MaxFrames frames of every kind
\* ------------------------------------------------------------------------
RECURSIVE FramesOfKinds(_, _)
FramesOfKinds(kinds, k) ==
  IF k > Len(kinds) THEN <<>>
  ELSE LE32(2) \o <<kinds[k], k>> \o FramesOfKinds(kinds, k + 1)

DecFiles ==
  {FramesOfKinds(kinds, 1) :
     kinds \in UNION {[1..n -> Kinds] : n \in 0..MaxFrames}}

Init ==
  /\ file \in DecFiles
  /\ fileExists \in BOOLEAN
  /\ HostReporting
  /\ reqWorker \in 0..MaxNWorker
  /\ nWorker = limitWorker(reqWorker, maxWorker)
  /\ interp \in BOOLEAN
  /\ InitCommon

Next ==
  \/ Enter
  \/ Map
  \/ \E t \in 1..Len(task) : TaskStart(t)
  \/ \E t \in 1..Len(task) : TaskBuffer(t)
  \/ \E t \in 1..Len(task) : TaskDecode(t)
  \/ \E t \in 1..Len(task) : TaskConvert(t)
  \/ \E t \in 1..Len(task) : TaskFree(t)
  \/ ConsumeNext
  \/ CatchExc
  \/ DropIter
  \/ ExitShutdown
  \/ ExitTeardown

Spec == Init /\ [][Next]_vars

\* ------------------------------------------------------------------------
\* The aggregation specification: one getNdarray call per session
\* ------------------------------------------------------------------------
\* The enable flags of the call, as the set of the fields enabled.
Wants == {{}, {"mag"}, {"tstamp", "csi", "phase"}, Fields}

AggKinds == {KindOk, KindMalformed, KindSparse, KindFreeFails}

AggFiles ==
  {FramesOfKinds(kinds, 1) :
     kinds \in UNION {[1..n -> AggKinds] : n \in 0..MaxFrames}}

InitAgg ==
  /\ file \in AggFiles
  /\ fileExists = TRUE
  /\ hostCpus = MaxCpu
  /\ maxWorker = hostCpus
  /\ reqWorker = MaxNWorker
  /\ nWorker = limitWorker(reqWorker, maxWorker)
  /\ interp \in BOOLEAN
  /\ want \in Wants
  /\ InitCommon

NextAgg ==
  \/ Enter
  \/ GetNdarray
  \/ \E t \in 1..Len(task) : TaskStart(t)
  \/ \E t \in 1..Len(task) : TaskBuffer(t)
  \/ \E t \in 1..Len(task) : TaskDecode(t)
  \/ \E t \in 1..Len(task) : TaskConvert(t)
  \/ \E t \in 1..Len(task) : TaskFree(t)
  \/ ConsumeNext
  \/ GetNdarrayRaise
  \/ GetNdarrayReturn
  \/ CatchExc
  \/ ExitShutdown
  \/ ExitTeardown

SpecAgg == InitAgg /\ [][NextAgg]_vars

\* ------------------------------------------------------------------------
\* The pool specification: every requested size on every host
\* ------------------------------------------------------------------------
\* os.cpu_count() is the number of processing units of the host, or None
\* (0 here) when the platform cannot determine it.
InitPool ==
  /\ file \in {FramesOfKinds([k \in 1..n |-> KindOk], 1) : n \in 0..MaxFrames}
  /\ fileExists = TRUE
  /\ hostCpus \in 1..MaxCpu
  /\ maxWorker \in {0, hostCpus}
  /\ reqWorker \in 0..MaxNWorker
  /\ nWorker = limitWorker(reqWorker, maxWorker)
  /\ interp = FALSE
  /\ want = {}
  /\ InitCommon

NextPool ==
  \/ Enter
  \/ Map
  \/ \E t \in 1..Len(task) : TaskStart(t)
  \/ \E t \in 1..Len(task) : TaskBuffer(t)
  \/ \E t \in 1..Len(task) : TaskDecode(t)
  \/ \E t \in 1..Len(task) : TaskConvert(t)
  \/ \E t \in 1..Len(task) : TaskFree(t)
  \/ ConsumeNext
  \/ ExitShutdown
  \/ ExitTeardown

SpecPool == InitPool /\ [][NextPool]_vars

\* ------------------------------------------------------------------------
\* Properties of the indexer
\* ------------------------------------------------------------------------
\* A complete frame with payload length L > 0: prefix and L payload bytes.
FramesOfLen(L) == {LE32(L) \o p : p \in [1..L -> ByteVals]}

\* Zero or more complete frames laid end to end, at most budget bytes long.
RECURSIVE FrameRuns(_)
FrameRuns(budget) ==
  {<<>>} \cup
  UNION {{f \o rest : f \in FramesOfLen(L),
                      rest \in FrameRuns(budget - HeaderLen - L)}
         : L \in 1..(budget - HeaderLen)}

\* Well-formed capture files: complete frames, then fewer than 4 stray bytes.
WellFormedFiles ==
  {r \o s : r \in FrameRuns(MaxFileSize),
            s \in UNION {[1..n -> ByteVals] : n \in 0..(HeaderLen - 1)}}

SliceEnd(s) == IF s = <<>> THEN 0 ELSE s[Len(s)][1] + s[Len(s)][2]

Contiguous(s) ==
  /\ s # <<>> => s[1][1] = 0
  /\ \A k \in 1..(Len(s) - 1) : s[k + 1][1] = s[k][1] + s[k][2]

IsPrefix(s, t) == Len(s) <= Len(t) /\ SubSeq(t, 1, Len(s)) = s

\* C1: for a well-formed file the yielded slices tile the file: the first
\* starts at 0, each later one starts where the previous one ends, the scan
\* does not fail, and fewer than 4 bytes are left after the last slice.
C1_Tiling ==
  \A g \in Gens :
    file \in WellFormedFiles =>
      /\ Contiguous(gen[g].out)
      /\ gen[g].pc # "error"
      /\ gen[g].pc = "done" => Len(file) - SliceEnd(gen[g].out) < HeaderLen
      /\ gen[g].pc = "done" => SliceEnd(gen[g].out) <= Len(file)

C1_Witness ==
  /\ file \in WellFormedFiles
  /\ gen[1].pc = "done"
  /\ Len(gen[1].out) >= 2

\* C2: whatever the file holds, every yielded slice has offset >= 0,
\* length >= 4 and offset + length <= fileSize.
C2_SliceInBounds ==
  \A g \in Gens : \A k \in 1..Len(gen[g].out) :
    /\ gen[g].out[k][1] >= 0
    /\ gen[g].out[k][2] >= HeaderLen
    /\ gen[g].out[k][1] + gen[g].out[k][2] <= gen[g].fileSize
    /\ gen[g].fileSize = Len(file)

C2_Witness ==
  /\ file \notin WellFormedFiles
  /\ gen[1].pc = "done"
  /\ Len(gen[1].out) >= 1

\* C10: two generators of one open session over an unchanged file, resumed
\* in any interleaving, each scan from offset 0 and yield the same slices:
\* at every moment one output is a prefix of the other, and two finished
\* scans have yielded identical sequences.
C10_Restartable ==
  \A g \in Gens, h \in Gens :
    /\ gen[g].out # <<>> => gen[g].out[1][1] = 0
    /\ IsPrefix(gen[g].out, gen[h].out) \/ IsPrefix(gen[h].out, gen[g].out)
    /\ gen[g].pc = "done" /\ gen[h].pc = "done" => gen[g].out = gen[h].out

C10_Witness ==
  /\ gen[1].pc = "done" /\ Len(gen[1].out) = 2
  /\ gen[2].pc = "yielded" /\ Len(gen[2].out) = 1
\* ------------------------------------------------------------------------
\* Properties of the dispatcher, the decode task and the session
\* ------------------------------------------------------------------------
SliceBytes(sl) == SliceView(file, sl[1], sl[1] + sl[2])

\* The record of a slice: its bytes decoded and assembled.
RecordOf(sl) == libpicoFrameToNdarray(0, LibpicoRawOf(SliceBytes(sl)), interp)

ResultIteratorEnded == iterPc \in {"exhausted", "raised"}

\* C3: for every pool size and every interleaving of the tasks, the i-th
\* record the caller receives is the decode of the i-th input slice.
C3_OrderPreserved ==
  /\ Len(out) <= Len(batch)
  /\ \A k \in 1..Len(out) : out[k] = RecordOf(batch[k])

\* Both records delivered although the first task finished after the second.
C3_Witness ==
  /\ Len(batch) >= 2
  /\ Len(out) = Len(batch)
  /\ nWorker >= 2
  /\ task[1].ptr # 0 /\ task[2].ptr # 0
  /\ heap[task[1].ptr].freedAt > heap[task[2].ptr].freedAt

\* C4: every DecodedFrame is released exactly once, by the task that
\* obtained it, and only after that task has extracted its data.
C4_ReleasedExactlyOnce ==
  \A f \in 1..Len(heap) :
    /\ heap[f].nFree <= 1
    /\ heap[f].st = "freed" =>
         /\ heap[f].freedBy = heap[f].owner
         /\ task[heap[f].owner].rec # <<>>
    /\ task[heap[f].owner].st \in {"done", "failed"} => heap[f].nFree = 1

\* C5: a task that has obtained a DecodedFrame never ends, normally or by
\* an error of the conversion, with that DecodedFrame unreleased.
C5_ReleasedOnFailure ==
  \A t \in 1..Len(task) :
    task[t].st \in {"done", "failed"} /\ task[t].ptr # 0 =>
      heap[task[t].ptr].st = "freed"

TensorFields == {"csi", "mag", "phase"}

\* C6: for both values of interp, no tensor of a record a task has produced
\* views the memory of a DecodedFrame once that frame is released, and the
\* record a task returns owns all its tensors.
C6_NoAliasPastRelease ==
  \A t \in 1..Len(task) :
    task[t].rec # <<>> =>
      \A fld \in TensorFields :
        LET a == task[t].rec[1][fld] IN
        /\ a.base # 0 => heap[a.base].st # "freed"
        /\ task[t].st = "done" => a.base = 0

C6_Witness ==
  \E t \in 1..Len(task) :
    /\ interp
    /\ task[t].st = "done"
    /\ heap[task[t].ptr].st = "freed"
    /\ out # <<>>

\* C7: once the memory view or the mapping is released every submitted task
\* has finished, and a task that holds or reads a byte view does so while
\* the view and the mapping are live.
C7_DrainBeforeRelease ==
  /\ viewRes = "closed" \/ mmapRes = "closed" =>
       \A t \in 1..Len(task) : Finished(t)
  /\ \A t \in 1..Len(task) :
       task[t].st \in {"buffered", "decoded", "converted"} =>
         viewRes = "open" /\ mmapRes = "open"

\* The session was closed with tasks outstanding, one of them still queued,
\* and the view was released after that task had run to completion.
C7_Witness ==
  /\ viewRes = "closed"
  /\ \E t \in closedWith : task[t].st = "done"

\* C8: when the session scope has ended, on any path, every resource that
\* was acquired has been released.
C8_AllReleased ==
  pcMain = "ended" =>
    /\ fileRes # "open"
    /\ mmapRes # "open"
    /\ viewRes # "open"
    /\ poolRes # "running"

\* C9: in a batch whose only failures are slices the decoder rejects, no
\* sibling of a rejected slice is cancelled, and when the result iterator has
\* ended (exhausted or raised) the record of every slice the decoder accepted
\* has been delivered to the caller.
C9_SiblingsDelivered ==
  (\A k \in 1..Len(batch) : LibpicoRawOf(SliceBytes(batch[k])).csiOk)
  /\ iterPc # "dropped"
  =>
  \A k \in 1..Len(task) :
    ~DecoderRejects(SliceBytes(batch[k])) =>
      /\ task[k].st # "cancelled"
      /\ ResultIteratorEnded =>
           \E j \in 1..Len(out) : out[j] = RecordOf(batch[k])
\* ------------------------------------------------------------------------
\* Properties of the indexer: zero prefix, partial tail, termination
\* ------------------------------------------------------------------------
\* A complete 4-byte prefix at offset i that declares payload length 0.
ZeroAt(i) ==
  /\ i + HeaderLen <= Len(file)
  /\ \A j \in 1..HeaderLen : file[i + j] = 0

\* C11: a prefix that declares length 0 ends the scan at its offset: no
\* slice is ever yielded for it, the scan does not fail, and the finished
\* scan has stopped right behind its last slice, whatever follows.
C11_ZeroLengthStops ==
  \A g \in Gens :
    /\ \A k \in 1..Len(gen[g].out) : ~ZeroAt(gen[g].out[k][1])
    /\ gen[g].pc \in {"yielded", "done"} /\ ZeroAt(SliceEnd(gen[g].out)) =>
         /\ Contiguous(gen[g].out)
         /\ gen[g].pc = "done" => gen[g].idx = SliceEnd(gen[g].out)
    /\ gen[g].pc # "error"

\* The scan has stopped at a zero prefix that a complete valid frame follows.
C11_Witness ==
  /\ gen[1].pc = "done"
  /\ ZeroAt(gen[1].idx)
  /\ ScanAt(gen[1].idx + HeaderLen, diskSize, file).k = "yield"

\* The ways to cut at most budget bytes into frames of 5 bytes or more: the
\* sequences of the frames' lengths.
RECURSIVE LenSeqs(_)
LenSeqs(budget) ==
  {<<>>} \cup
  UNION {{<<L>> \o r : r \in LenSeqs(budget - L)}
         : L \in (HeaderLen + 1)..budget}

RECURSIVE SumSeq(_)
SumSeq(s) == IF s = <<>> THEN 0 ELSE Head(s) + SumSeq(Tail(s))

\* The slices of frames of the lengths lens laid end to end from offset 0.
SlicesOf(lens) ==
  [k \in 1..Len(lens) |-> <<SumSeq(SubSeq(lens, 1, k - 1)), lens[k]>>]

\* The length the 4 bytes of f at offset off declare.
DeclaredAt(f, off) ==
  f[off + 1] + 256 * f[off + 2] + 65536 * f[off + 3] + 16777216 * f[off + 4]

\* From offset off on, f is complete frames of the lengths lens followed by
\* a partial frame: fewer than 4 bytes, or a prefix declaring more payload
\* than follows it.
RECURSIVE IsTruncatedFrom(_, _, _)
IsTruncatedFrom(f, off, lens) ==
  IF lens = <<>>
  THEN \/ Len(f) - off < HeaderLen
       \/ DeclaredAt(f, off) > Len(f) - off - HeaderLen
  ELSE /\ off + Head(lens) <= Len(f)
       /\ DeclaredAt(f, off) = Head(lens) - HeaderLen
       /\ IsTruncatedFrom(f, off + Head(lens), Tail(lens))

Cuts == LenSeqs(MaxFileSize) \cup {<<16, 16, 16>>}

\* The cuts that can be cuts of f: no frame, or a first frame of the length
\* the first prefix of f declares.
CutsOf(f) ==
  IF Len(f) < HeaderLen THEN {<<>>}
  ELSE LET first == DeclaredAt(f, 0) + HeaderLen IN
       {lens \in Cuts : lens = <<>> \/ Head(lens) = first}

\* C12: for a file of k complete frames followed by a partial frame, the
\* scan never fails, yields only slices of the k frames, in order, and a
\* finished scan has yielded exactly the k frames.
C12_PartialTailIgnored ==
  \A lens \in CutsOf(file) :
    IsTruncatedFrom(file, 0, lens) =>
      \A g \in Gens :
        /\ gen[g].pc # "error"
        /\ IsPrefix(gen[g].out, SlicesOf(lens))
        /\ gen[g].pc = "done" => gen[g].out = SlicesOf(lens)

\* The scenario of the three 16-byte frames and 2 stray bytes.
C12_Witness ==
  /\ file = ScenarioFile
  /\ gen[1].pc = "done"
  /\ gen[1].out = <<<<0, 16>>, <<16, 16>>, <<32, 16>>>>

\* C20: every yield moves the scan offset on by at least 5 bytes, so at most
\* fileSize / 5 slices are yielded, and a finished scan has stopped because
\* fewer than 4 bytes remain, the prefix is 0 or the frame overruns the file.
C20_ScanProgress ==
  \A g \in Gens :
    /\ \A k \in 1..Len(gen[g].out) : gen[g].out[k][2] >= HeaderLen + 1
    /\ \A k \in 1..(Len(gen[g].out) - 1) :
         gen[g].out[k + 1][1] >= gen[g].out[k][1] + HeaderLen + 1
    /\ gen[g].out # <<>> => gen[g].idx >= gen[g].out[Len(gen[g].out)][1]
    /\ (HeaderLen + 1) * Len(gen[g].out) <= diskSize
    /\ gen[g].pc = "done" =>
         LET left == gen[g].fileSize - gen[g].idx IN
         \/ left < HeaderLen
         \/ ZeroAt(gen[g].idx)
         \/ Unpack(SliceView(file, gen[g].idx, gen[g].idx + HeaderLen))
              > left - HeaderLen
\* A finished scan that yielded as many slices as a file of its size holds.
C20_Witness ==
  /\ gen[1].pc = "done"
  /\ Len(gen[1].out) >= 2
  /\ Len(gen[1].out) = diskSize \div (HeaderLen + 1)
\* ------------------------------------------------------------------------
\* Scans of a file whose size changed after it was mapped
\* ------------------------------------------------------------------------
\* The scan of generator g never raised and each of its slices lies within
\* the file size it read and within the mapped view.
ScanSafe(g) ==
  /\ gen[g].pc # "error"
  /\ \A k \in 1..Len(gen[g].out) :
       /\ gen[g].out[k][1] + gen[g].out[k][2] <= gen[g].fileSize
       /\ gen[g].out[k][1] + gen[g].out[k][2] <= Len(file)

\* C19: a scan that read a file size different from the mapped size, smaller
\* or larger, does not raise and yields only slices within both sizes.
C19_ResizeSafe ==
  \A g \in Gens :
    gen[g].pc # "new" /\ gen[g].fileSize # Len(file) => ScanSafe(g)

\* The half of C19 about truncation: a scan of a file that shrank.
TruncatedScanSafe ==
  \A g \in Gens :
    gen[g].pc # "new" /\ gen[g].fileSize < Len(file) => ScanSafe(g)

\* A finished scan of a truncated file that yielded a slice.
TruncatedScanSeen ==
  /\ gen[1].pc = "done"
  /\ gen[1].fileSize < Len(file)
  /\ gen[1].out # <<>>
\* ------------------------------------------------------------------------
\* Properties of getNdarray and of the assembly of one frame
\* ------------------------------------------------------------------------
\* The slices the indexer yields for the file.
Index == ScanFrom(0, diskSize, file)

\* C13: every requested field of a returned getNdarray call is an array with
\* one entry per frame of the index, and its i-th entry is the value of the
\* field in the record of the i-th frame.
C13_StackedInOrder ==
  result.st = "returned" =>
    \A fld \in want :
      /\ result.val[fld].present
      /\ Len(result.val[fld].rows) = Len(Index)
      /\ \A i \in 1..Len(Index) :
           result.val[fld].rows[i] =
             IF fld = "tstamp" THEN RecordOf(Index[i]).tstamp
             ELSE RecordOf(Index[i])[fld].rows

\* Every field of a file of two frames returned, the second task having
\* finished while the first was still executing.
C13_Witness ==
  /\ result.st = "returned"
  /\ want = Fields
  /\ Len(Index) = 2
  /\ heap[task[2].ptr].freedAt = 1
  /\ result.val["tstamp"].rows = <<1, 2>>

\* C14: a field whose enable flag is false is returned as None and no task of
\* the call has computed it.
C14_UnrequestedNotComputed ==
  result.st = "returned" =>
    \A fld \in Fields \ want :
      /\ ~result.val[fld].present
      /\ \A t \in 1..Len(task) :
           task[t].rec = <<>> \/ fld \notin DOMAIN task[t].rec[1]

\* The tone rows whose subcarrier label is none of -1, 0, 1.
RealTones(subcarrierIdx) ==
  {i \in 1..Len(subcarrierIdx) : subcarrierIdx[i] \notin {-1, 0, 1}}

\* rows restricted, in order, to the real tones.
Restrict(rows, subcarrierIdx) ==
  LET S == RealTones(subcarrierIdx) IN
  [k \in 1..Cardinality(S) |->
     rows[CHOOSE i \in S : Cardinality({j \in S : j < i}) = k - 1]]

\* C16: the tensors a task assembles with interpolate = false are the tensors
\* assembled from the same decoded frame with interpolate = true, restricted
\* in order to the real tones; they have at most as many tones.
C16_InterpFilter ==
  \A t \in 1..Len(task) :
    task[t].rec # <<>> /\ ~interp =>
      LET raw == heap[task[t].ptr].raw
          full == libpicoFrameToNdarray(task[t].ptr, raw, TRUE)
      IN /\ task[t].rec[1].tstamp = full.tstamp
         /\ \A fld \in TensorFields :
              /\ task[t].rec[1][fld].rows =
                   Restrict(full[fld].rows, raw.subcarrierIdx)
              /\ Len(task[t].rec[1][fld].rows) <= Len(full[fld].rows)

\* A sparse frame assembled without its interpolated tones: one row of four.
C16_Witness ==
  /\ ~interp
  /\ \E t \in 1..Len(task) :
       /\ task[t].st = "done"
       /\ heap[task[t].ptr].raw.subcarrierIdx = SparseLabels
       /\ Len(task[t].rec[1].csi.rows) = 1
       /\ task[t].rec[1].mag.rows = <<20 * t + 4>>

\* C17: a getNdarray call whose per-frame tensors of a requested field have
\* different shapes does not return a result.
C17_RaggedRejected ==
  /\ iterPc = "exhausted"
  /\ \E fld \in want \ {"tstamp"} : Ragged(ListOf(fld, out))
  => result.st # "returned"

\* C18: no task ends as an ordinary success when freeLibpicoFrame reported
\* that it did not release the task's frame.
C18_ReleaseFailureSurfaced ==
  \A t \in 1..Len(task) :
    task[t].release = "failed" => task[t].st # "done"
\* ------------------------------------------------------------------------
\* Properties of the worker pool
\* ------------------------------------------------------------------------
\* The decode tasks that are executing.
ExecutingTasks == {t \in 1..Len(task) : Executing(t)}

====
